---- MODULE Spec2Model ----
(***************************************************************************)
(* Streaming hardware JPEG codec pipeline of the STM32 image processing    *)
(* library (stm32ipl_image_io_jpg_hw.c): the session context jpgCtx, the   *)
(* two entry points readJPEGHW / saveJPEGHW, and the four HAL callbacks.   *)
(* The HAL JPEG engine, the FatFs storage object, the heap and the         *)
(* jpeg_utils colour converters are the environment: their outcomes        *)
(* (bytes consumed, I/O failures, allocation failures, time-outs) are      *)
(* chosen nondeterministically.                                            *)
(***************************************************************************)
EXTENDS Integers, Sequences, FiniteSets, TLC

(* ---------------- program constants ---------------- *)
YCBCR420_MCU_SIZE == 384
YCBCR422_MCU_SIZE == 256
YCBCR444_MCU_SIZE == 192
GRAYSCALE_MCU_SIZE == 64
CMYK_MCU_SIZE == 256
YUV_DATA_BUFFER_SIZE == 768
JPG_DATA_BUFFER_SIZE == 512
STM32IPL_JPEG_QUALITY == 90
JPEG_HAL_DELAY == 5000

(* ---------------- bounds of the model ---------------- *)
\* image sides are multiples of 8 up to 8 * MaxDimUnits, plus one odd side
MaxDimUnits == 2
\* the engine may report up to MaxRewind bytes of a chunk as not consumed
MaxRewind == 2
\* stored streams are MaxFileChunks chunks long at most (plus a tail)
MaxFileChunks == 1
\* compressed blocks the encoder engine emits in one operation
MaxOutBlocks == 2
\* storage reads of one decode (the first chunk included)
MaxReads == 3

Min(a, b) == IF a < b THEN a ELSE b

Dims == {8 * i : i \in 0..MaxDimUnits} \cup {9}
ColorSpaces == {"GRAYSCALE", "YCBCR", "CMYK"}
Subsamplings == {"444", "420", "422"}
\* sizes of the stored stream offered to decode: empty, shorter than a chunk,
\* whole chunks, whole chunks plus a tail
FileSizes == {0, 100} \cup {JPG_DATA_BUFFER_SIZE * i : i \in 1..MaxFileChunks}
               \cup {JPG_DATA_BUFFER_SIZE * i + 7 : i \in 1..MaxFileChunks}
\* sizes of the compressed blocks the encoder engine hands out
OutSizes == {JPG_DATA_BUFFER_SIZE, 40}

(* ---------------- the session context ---------------- *)
ZeroInfo == [ColorSpace |-> "GRAYSCALE", ChromaSubsampling |-> "444",
             ImageHeight |-> 0, ImageWidth |-> 0, ImageQuality |-> 0]

\* memset(&jpgCtx, 0, sizeof(jpgCtx_t)): enum value 0 is jpegOpDecoding
ZeroCtx == [file |-> "NULL", fileOffset |-> 0, info |-> ZeroInfo,
            operation |-> "jpegOpDecoding",
            pYCbCrToRGBFn |-> "NULL", pRGBToYCbCrFn |-> "NULL",
            mcuIndex |-> 0, mcuTotal |-> 0,
            rgbDataPtr |-> "NULL", rgbDataSize |-> 0,
            yuvDataPtr |-> "NULL", yuvDataSize |-> 0,
            jpgDataPtr |-> "NULL", jpgDataSize |-> 0]

\* the HAL engine as the pipeline sees it
ZeroHal == [inited |-> FALSE, running |-> FALSE, aborted |-> FALSE,
            pausedIn |-> FALSE, pausedOut |-> FALSE,
            inLen |-> 0, outLen |-> 0, hdr |-> FALSE,
            outLeft |-> 0, fed |-> 0, need |-> 0, blocks |-> 0,
            configured |-> FALSE]

\* the storage object (FatFs FIL)
ZeroFil == [open |-> FALSE, closed |-> FALSE, fptr |-> 0, fsize |-> 0,
            chunkAt |-> 0]

EmptyImage == [w |-> 0, h |-> 0, bpp |-> "0", data |-> "NULL"]

\* what the last callback invocation did (observation of one handler run)
NoSig == [op |-> "none", k |-> 0, n |-> 0, idx |-> 0, prevAt |-> 0,
          seekTo |-> -1, seekOk |-> TRUE, readAt |-> -1, readOk |-> TRUE,
          conv |-> -1, units |-> 0, bytes |-> 0,
          cfgIn |-> -1, cfgOut |-> -1,
          pausedIn |-> FALSE, pausedOut |-> FALSE,
          resumedIn |-> FALSE, resumedOut |-> FALSE,
          wrote |-> -1, aborts |-> 0,
          first |-> -1, btr |-> -1,
          calls |-> <<>>]   \* a handler's storage and converter calls, in order

\* the arguments of one JPEG_Encode call
NoArgs == [called |-> FALSE, fp |-> "NULL", imp |-> "NULL", img |-> EmptyImage,
           colorSpace |-> "none", chromaSS |-> "none", quality |-> 0]

\* ledger of one operation
NoOp == [kind |-> "none", inited |-> FALSE, opened |-> FALSE,
         aborts |-> 0, sumUnits |-> 0, convs |-> 0, consumed |-> 0,
         started |-> 0, wfail |-> FALSE, allocFail |-> FALSE, afterAbort |-> 0,
         endIndex |-> 0, endTotal |-> 0,
         args |-> NoArgs, hdr |-> ZeroInfo, allocSize |-> -1,
         pixels |-> "none", reads |-> 0, bytesRead |-> 0, takenBack |-> 0,
         halRet |-> "none", size32 |-> [hi |-> 0, lo |-> 0], trace |-> <<>>,
         produced |-> 0, eois |-> 0]

VARIABLES
  pc,          \* where the initiating thread is
  jpgCtx,      \* static jpgCtx_t jpgCtx
  firstTime,   \* static uint8_t firstTime of JPEG_InitDriver
  tableInits,  \* how often JPEG_InitColorTables ran (capped)
  hal,         \* the HAL JPEG engine
  fil,         \* the storage object
  img,         \* the image descriptor (decode: output, encode: source)
  res,         \* value returned by the entry point
  cfgSS,       \* STM32IPL_JPEG_SUBSAMPLING of the build
  sig,         \* what the last callback invocation did
  op           \* ledger of the current operation

vars == <<pc, jpgCtx, firstTime, tableInits, hal, fil, img, res, cfgSS, sig, op>>

(* ---------------- jpeg_utils: converter selection ---------------- *)
CeilDiv(a, b) == (a + b - 1) \div b

HFactor(ss) == IF ss \in {"420", "422"} THEN 16 ELSE 8
VFactor(ss) == IF ss = "420" THEN 16 ELSE 8

\* mutant: the units are counted as strides of 512 pixels
MCUTotalNb_PixelStrides(w, h, ss) == CeilDiv(w * h, 512)

\* MCU_Total_Nb = hMCU * vMCU
MCUTotalNb(w, h, ss) == CeilDiv(w, HFactor(ss)) * CeilDiv(h, VFactor(ss))

ConvertFunc(cs, ss) ==
  IF cs = "YCBCR" THEN "YCbCr" \o ss
  ELSE IF cs = "GRAYSCALE" THEN "Gray"
  ELSE IF cs = "CMYK" THEN "CMYK"
  ELSE "NULL"

\* bytes of one MCU in the sample domain
McuSize(fn) ==
  CASE fn = "YCbCr420" -> YCBCR420_MCU_SIZE
    [] fn = "YCbCr422" -> YCBCR422_MCU_SIZE
    [] fn = "YCbCr444" -> YCBCR444_MCU_SIZE
    [] fn = "Gray" -> GRAYSCALE_MCU_SIZE
    [] fn = "CMYK" -> CMYK_MCU_SIZE
    [] OTHER -> 1

\* RGB565 source bytes of one MCU
McuRgbBytes(fn) ==
  CASE fn = "YCbCr420" -> 512
    [] fn = "YCbCr422" -> 256
    [] OTHER -> 128

\* pRGBToYCbCrFn(src, dst, BlockIndex, DataCount, &ConvertedDataCount):
\* converts the MCUs that fit DataCount source bytes, returns their number
RGBToYCbCrFn(fn, DataCount) ==
  LET numberMCU == DataCount \div McuRgbBytes(fn)
  IN  [units |-> numberMCU, bytes |-> numberMCU * McuSize(fn)]

\* pYCbCrToRGBFn(src, dst, BlockIndex, DataCount, NULL): returns the MCUs in DataCount
YCbCrToRGBFn(fn, DataCount) == DataCount \div McuSize(fn)


(* ---------------- storage (FatFs) ---------------- *)
\* f_lseek(fp, ofs) that succeeds: the read/write pointer moves to ofs
f_lseek(f, ofs) == Min(ofs, f.fsize)

\* f_read(fp, buf, btr, &br) at position at: on success br is what is left of
\* the file up to btr; on failure br is 0 and nothing is read
f_read(f, at, btr, ok) ==
  LET br == IF ok THEN Min(btr, f.fsize - at) ELSE 0
  IN  [ok |-> ok, br |-> br, fptr |-> at + br]

\* mutant: a read asks for twice what the bitstream buffer holds
ReadRequest_Double == 2 * JPG_DATA_BUFFER_SIZE

\* the byte count every f_read of the decoder asks for
ReadRequest == JPG_DATA_BUFFER_SIZE

(* ---------------- driver set-up and tear-down ---------------- *)
HAL_JPEG_Init(h) == [ZeroHal EXCEPT !.inited = TRUE]

HAL_JPEG_DeInit(h) == ZeroHal

HAL_JPEG_Abort(h) == [h EXCEPT !.aborted = TRUE]

\* mutant: the colour tables are initialised at every call
JPEG_InitDriver_TablesEveryTime(h, first, inits) ==
  [ctx |-> ZeroCtx,
   hal |-> HAL_JPEG_Init(h),
   firstTime |-> 1,
   tableInits |-> Min(inits + 1, 2)]

\* JPEG_InitDriver: clears the context, initialises the engine, and the colour
\* tables the first time only
JPEG_InitDriver(h, first, inits) ==
  [ctx |-> ZeroCtx,
   hal |-> HAL_JPEG_Init(h),
   firstTime |-> 1,
   tableInits |-> IF first = 0 THEN Min(inits + 1, 2) ELSE inits]

\* mutant: the context is cleared but the engine is left initialised
JPEG_DeInitDriver_ClearOnly(h) == [ctx |-> ZeroCtx, hal |-> h, frees |-> {}]

\* mutant: the tear-down releases the pixel buffer the context points to
JPEG_DeInitDriver_FreePixels(h) ==
  [ctx |-> ZeroCtx, hal |-> HAL_JPEG_DeInit(h), frees |-> {jpgCtx.rgbDataPtr}]

\* mutant: the tear-down clears the context but for the pixel pointer
JPEG_DeInitDriver_KeepPixelPtr(h) ==
  [ctx |-> [ZeroCtx EXCEPT !.rgbDataPtr = jpgCtx.rgbDataPtr],
   hal |-> HAL_JPEG_DeInit(h), frees |-> {}]

\* JPEG_DeInitDriver: de-initialises the engine and clears the context; it
\* releases no memory
JPEG_DeInitDriver(h) == [ctx |-> ZeroCtx, hal |-> HAL_JPEG_DeInit(h), frees |-> {}]

\* state of the pixel buffer pix, reachable through ptr, after the pointers in
\* frees have been released
PixelsAfter(pix, ptr, frees) ==
  IF ptr # "NULL" /\ ptr \in frees THEN "freed" ELSE pix

\* mutant: the error handler does not abort the engine
JPEG_ErrorHandler_Nop(h) == h

JPEG_ErrorHandler(h) == HAL_JPEG_Abort(h)

(* ---------------- decode entry point ---------------- *)
\* mutant: the first chunk is taken to fill the bitstream buffer
FirstOffset_BufferSize(c) == JPG_DATA_BUFFER_SIZE

\* jpgCtx.fileOffset = jpgCtx.jpgDataSize
FirstOffset(c) == c.jpgDataSize

StaleImage == [w |-> 1, h |-> 1, bpp |-> "stale", data |-> "stale"]

Ledger(kind, inited) == [NoOp EXCEPT !.kind = kind, !.inited = inited]

\* readJPEGHW up to the blocking HAL_JPEG_Decode call (or an early return)
readJPEGHW(imgOk, fpOk, size, seekOk, readOk) ==
  /\ pc = "idle"
  /\ sig' = IF imgOk /\ fpOk /\ seekOk
             THEN [NoSig EXCEPT !.op = "readJPEGHW", !.first = firstTime,
                     !.btr = ReadRequest, !.seekTo = 0, !.readAt = 0,
                     !.readOk = readOk]
             ELSE [NoSig EXCEPT !.op = "readJPEGHW",
                     !.seekTo = IF imgOk /\ fpOk THEN 0 ELSE -1,
                     !.seekOk = ~(imgOk /\ fpOk) \/ seekOk]
  /\ UNCHANGED cfgSS
  /\ IF ~imgOk \/ ~fpOk
     THEN /\ res' = "InvalidParameter"
          /\ pc' = "done"
          /\ op' = Ledger("decode", FALSE)
          /\ img' = IF imgOk THEN StaleImage ELSE EmptyImage
          /\ fil' = [ZeroFil EXCEPT !.open = fpOk, !.fsize = size]
          /\ UNCHANGED <<jpgCtx, firstTime, tableInits, hal>>
     ELSE
       /\ img' = EmptyImage                 \* STM32Ipl_Init(img, 0, 0, 0, 0)
       /\ IF ~seekOk
          THEN /\ res' = "SeekingFile"
               /\ pc' = "done"
               /\ op' = Ledger("decode", FALSE)
               /\ fil' = [ZeroFil EXCEPT !.open = TRUE, !.fsize = size]
               /\ UNCHANGED <<jpgCtx, firstTime, tableInits, hal>>
          ELSE
            LET f0  == [ZeroFil EXCEPT !.open = TRUE, !.fsize = size]
                drv == JPEG_InitDriver(hal, firstTime, tableInits)
                rd  == f_read(f0, f_lseek(f0, 0), ReadRequest, readOk)
                c1  == [drv.ctx EXCEPT !.file = "fp",
                          !.operation = "jpegOpDecoding",
                          !.mcuIndex = 0, !.mcuTotal = 0,
                          !.rgbDataPtr = "NULL", !.rgbDataSize = 0,
                          !.yuvDataPtr = "yuvDataBuffer",
                          !.yuvDataSize = YUV_DATA_BUFFER_SIZE,
                          !.jpgDataPtr = "jpgDataBuffer",
                          !.jpgDataSize = rd.br]
                led == [Ledger("decode", TRUE) EXCEPT !.reads = 1,
                          !.bytesRead = rd.br,
                          !.trace = <<"InitDriver", "f_read">>]
            IN
            /\ firstTime' = drv.firstTime
            /\ tableInits' = drv.tableInits
            /\ fil' = [f0 EXCEPT !.fptr = rd.fptr, !.chunkAt = 0]
            /\ IF ~rd.ok
               THEN /\ res' = "ReadingFile"
                    /\ pc' = "done"
                    /\ jpgCtx' = c1
                    /\ hal' = drv.hal
                    /\ op' = led
               ELSE /\ res' = "none"
                    /\ pc' = "decoding"
                    /\ jpgCtx' = [c1 EXCEPT !.fileOffset = FirstOffset(c1)]
                    \* HAL_JPEG_Decode(jpgDataPtr, jpgDataSize, yuvDataPtr, yuvDataSize)
                    /\ hal' = [drv.hal EXCEPT !.running = TRUE,
                                 !.inLen = c1.jpgDataSize,
                                 !.outLen = c1.yuvDataSize]
                    /\ op' = [led EXCEPT !.started = 1,
                                !.trace = Append(@, "HAL_JPEG_Decode")]

\* mutant: the image is filled in whatever the outcome
DecodedImage_Always(r, c, im) ==
  [w |-> c.info.ImageWidth, h |-> c.info.ImageHeight,
   bpp |-> IF c.info.ColorSpace = "GRAYSCALE" THEN "GRAYSCALE" ELSE "RGB565",
   data |-> c.rgbDataPtr]

\* mutant: the image is filled in from the context after it has been cleared
DecodedImage_AfterDeInit(r, c, im) ==
  IF r = "Ok"
  THEN [w |-> ZeroCtx.info.ImageWidth, h |-> ZeroCtx.info.ImageHeight,
        bpp |-> IF ZeroCtx.info.ColorSpace = "GRAYSCALE" THEN "GRAYSCALE" ELSE "RGB565",
        data |-> ZeroCtx.rgbDataPtr]
  ELSE im

\* if (res == stm32ipl_err_Ok) STM32Ipl_Init(img, w, h, bpp, rgbDataPtr)
DecodedImage(r, c, im) ==
  IF r = "Ok"
  THEN [w |-> c.info.ImageWidth, h |-> c.info.ImageHeight,
        bpp |-> IF c.info.ColorSpace = "GRAYSCALE" THEN "GRAYSCALE" ELSE "RGB565",
        data |-> c.rgbDataPtr]
  ELSE im

\* readJPEGHW after HAL_JPEG_Decode has returned ret
readJPEGHW_Return(ret) ==
  /\ pc = "decoding"
  /\ LET r   == IF ret = "HAL_OK" THEN "Ok" ELSE "OpNotCompleted"
         fin == JPEG_DeInitDriver(hal)
     IN
     /\ res' = r
     /\ img' = DecodedImage(r, jpgCtx, img)
     /\ jpgCtx' = fin.ctx
     /\ hal' = fin.hal
     /\ op' = [op EXCEPT !.endIndex = jpgCtx.mcuIndex, !.endTotal = jpgCtx.mcuTotal,
                 !.pixels = PixelsAfter(@, jpgCtx.rgbDataPtr, fin.frees),
                 !.halRet = ret,
                 !.trace = @ \o <<ret, "DeInitDriver">>]
  /\ pc' = "done"
  /\ UNCHANGED <<firstTime, tableInits, fil, cfgSS, sig>>

(* ---------------- callbacks, decode side ---------------- *)
\* bytes per pixel of the decoded image
BytesPerPixel(cs) == IF cs = "GRAYSCALE" THEN 1 ELSE 2

\* 32-bit unsigned values are kept as two 16-bit limbs, products that may
\* exceed 32 bits as three
Limb == 65536

\* the product of two 16-bit values, exact
Mul16x16(a, b) ==
  LET a1 == a \div 256  a0 == a % 256
      b1 == b \div 256  b0 == b % 256
      p0 == a0 * b0
      p1 == a1 * b0 + a0 * b1
      p2 == a1 * b1
      l  == p0 + (p1 % 256) * 256
  IN  [top |-> 0, hi |-> p2 + (p1 \div 256) + (l \div Limb), lo |-> l % Limb]

\* a value of three limbs times a factor below 2^15, exact while it fits
Scale(v, k) ==
  LET l == v.lo * k
      h == v.hi * k + (l \div Limb)
  IN  [top |-> v.top * k + (h \div Limb), hi |-> h % Limb, lo |-> l % Limb]

\* conversion to uint32_t: the value modulo 2^32
ToU32(v) == [hi |-> v.hi, lo |-> v.lo]

\* the integer a uint32_t below 2^31 stands for
U32Value(x) == x.hi * Limb + x.lo

\* width * height * bytes per pixel, the mathematical product
ExactSize(pInfo) ==
  Scale(Mul16x16(pInfo.ImageWidth, pInfo.ImageHeight),
        BytesPerPixel(pInfo.ColorSpace))

\* pInfo->ImageWidth * pInfo->ImageHeight * (... ? IMAGE_BPP_GRAYSCALE :
\* IMAGE_BPP_RGB565), evaluated in uint32_t and stored in rgbDataSize
RgbBufferSize(pInfo) ==
  LET wh == ToU32(Mul16x16(pInfo.ImageWidth, pInfo.ImageHeight))
  IN  ToU32(Scale([top |-> 0, hi |-> wh.hi, lo |-> wh.lo],
                  BytesPerPixel(pInfo.ColorSpace)))

\* mutant: the result of xalloc is not checked
AllocChecked_Ignore(h, ptr) == h

\* if (!jpgCtx.rgbDataPtr) JPEG_ErrorHandler();
AllocChecked(h, ptr) == IF ptr = "NULL" THEN JPEG_ErrorHandler(h) ELSE h

\* JPEG_GetDecodeColorConvertFunc(pInfo, &jpgCtx.pYCbCrToRGBFn,
\* &jpgCtx.mcuTotal): the selector stores the converter and the unit total,
\* or stores nothing and returns an error; its status is not looked at
JPEG_GetDecodeColorConvertFunc(pInfo, c, selOk) ==
  IF selOk
  THEN [fn  |-> ConvertFunc(pInfo.ColorSpace, pInfo.ChromaSubsampling),
        tot |-> MCUTotalNb(pInfo.ImageWidth, pInfo.ImageHeight,
                           pInfo.ChromaSubsampling)]
  ELSE [fn |-> c.pYCbCrToRGBFn, tot |-> c.mcuTotal]

\* HAL_JPEG_InfoReadyCallback(hjpg, pInfo)
HAL_JPEG_InfoReadyCallback(pInfo, allocOk, selOk) ==
  LET size == U32Value(RgbBufferSize(pInfo))
      ptr  == IF allocOk THEN "heap" ELSE "NULL"
      h1   == AllocChecked(hal, ptr)
      sel  == JPEG_GetDecodeColorConvertFunc(pInfo, jpgCtx, selOk)
      \* what the engine will hand out for this image
      fn   == ConvertFunc(pInfo.ColorSpace, pInfo.ChromaSubsampling)
      tot  == MCUTotalNb(pInfo.ImageWidth, pInfo.ImageHeight, pInfo.ChromaSubsampling)
  IN
  /\ jpgCtx' = [jpgCtx EXCEPT !.rgbDataSize = size, !.rgbDataPtr = ptr,
                  !.info = pInfo, !.pYCbCrToRGBFn = sel.fn,
                  !.mcuTotal = sel.tot]
  /\ hal' = [h1 EXCEPT !.hdr = TRUE, !.outLeft = tot * McuSize(fn)]
  /\ sig' = [NoSig EXCEPT !.op = "InfoReady",
               !.aborts = IF h1.aborted THEN 1 ELSE 0]
  /\ op' = [op EXCEPT !.aborts = @ + (IF h1.aborted THEN 1 ELSE 0),
              !.allocFail = (ptr = "NULL"),
              !.hdr = pInfo, !.allocSize = size, !.size32 = RgbBufferSize(pInfo),
              !.pixels = IF ptr = "NULL" THEN "none" ELSE "live"]
  /\ UNCHANGED <<pc, firstTime, tableInits, fil, img, res, cfgSS>>

\* mutant: the unconsumed remainder of the chunk is not taken back
RewindOffset_NoRewind(off, n, k) == off

\* mutant: the whole chunk is taken back, consumed or not
RewindOffset_ByChunk(off, n, k) == off - n

\* fileOffset - jpgDataSize + processedBytes
RewindOffset(off, n, k) == off - n + k

\* HAL_JPEG_GetDataCallback, decoding branch
GetDataDecodingStep(c, h, f, processedBytes, seekOk, readOk) ==
  LET n     == c.jpgDataSize
      rew   == processedBytes # n
      off1  == IF rew THEN RewindOffset(c.fileOffset, n, processedBytes)
               ELSE c.fileOffset
      sfail == rew /\ ~seekOk
      h1    == [h EXCEPT !.pausedIn = TRUE]
      h2    == IF sfail THEN JPEG_ErrorHandler(h1) ELSE h1
      at    == IF rew /\ seekOk THEN f_lseek(f, off1) ELSE f.fptr
      rd    == f_read(f, at, ReadRequest, readOk)
      h3    == IF rd.ok
               THEN [h2 EXCEPT !.inLen = rd.br, !.pausedIn = FALSE]
               ELSE JPEG_ErrorHandler(h2)
  IN
  [ctx |-> [c EXCEPT !.jpgDataSize = rd.br,
              !.fileOffset = IF rd.ok THEN off1 + rd.br ELSE off1],
   hal |-> h3,
   fil |-> [f EXCEPT !.fptr = rd.fptr, !.chunkAt = IF rd.ok THEN at ELSE @],
   n |-> n, rew |-> rew, off1 |-> off1, sfail |-> sfail, at |-> at, rd |-> rd,
   nab |-> (IF sfail THEN 1 ELSE 0) + (IF rd.ok THEN 0 ELSE 1),
   calls |-> (IF rew THEN <<"f_lseek">> ELSE <<>>) \o <<"f_read">>]

\* HAL_JPEG_GetDataCallback, decoding branch, as a step of the program
GetDataDecoding(processedBytes, seekOk, readOk) ==
  LET st == GetDataDecodingStep(jpgCtx, hal, fil, processedBytes, seekOk, readOk)
  IN
  /\ jpgCtx' = st.ctx
  /\ hal' = st.hal
  /\ fil' = st.fil
  /\ sig' = [NoSig EXCEPT !.op = "GetDataDec", !.k = processedBytes, !.n = st.n,
               !.prevAt = fil.chunkAt,
               !.seekTo = IF st.rew THEN st.off1 ELSE -1, !.seekOk = ~st.sfail,
               !.readAt = st.at, !.readOk = st.rd.ok,
               !.cfgIn = IF st.rd.ok THEN st.rd.br ELSE -1,
               !.pausedIn = TRUE, !.resumedIn = st.rd.ok, !.aborts = st.nab,
               !.btr = ReadRequest, !.calls = st.calls]
  /\ op' = [op EXCEPT !.aborts = @ + st.nab, !.consumed = @ + processedBytes,
              !.afterAbort = @ + (IF st.sfail THEN 1 ELSE 0),
              !.reads = Min(@ + 1, MaxReads), !.bytesRead = @ + st.rd.br,
              !.takenBack = @ + (IF st.rew /\ seekOk THEN fil.fptr - st.at ELSE 0)]
  /\ UNCHANGED <<pc, firstTime, tableInits, img, res, cfgSS>>

\* HAL_JPEG_DataReadyCallback, decoding branch
\* mutant: the have-output handler also clears the size of the input chunk
DataReadyDecodingStep_ClearsChunk(c, h, outDataSize) ==
  LET u == YCbCrToRGBFn(c.pYCbCrToRGBFn, outDataSize)
  IN  [ctx |-> [c EXCEPT !.mcuIndex = @ + u, !.jpgDataSize = 0],
       hal |-> [h EXCEPT !.outLen = c.yuvDataSize, !.pausedOut = FALSE,
                  !.outLeft = @ - outDataSize],
       units |-> u, calls |-> <<"pYCbCrToRGBFn">>]

DataReadyDecodingStep(c, h, outDataSize) ==
  LET u == YCbCrToRGBFn(c.pYCbCrToRGBFn, outDataSize)
  IN  [ctx |-> [c EXCEPT !.mcuIndex = @ + u],
       hal |-> [h EXCEPT !.outLen = c.yuvDataSize, !.pausedOut = FALSE,
                  !.outLeft = @ - outDataSize],
       units |-> u, calls |-> <<"pYCbCrToRGBFn">>]

\* HAL_JPEG_DataReadyCallback, decoding branch, as a step of the program
DataReadyDecoding(outDataSize) ==
  LET st == DataReadyDecodingStep(jpgCtx, hal, outDataSize)
  IN
  /\ jpgCtx' = st.ctx
  /\ hal' = st.hal
  /\ sig' = [NoSig EXCEPT !.op = "DataReadyDec", !.n = outDataSize,
               !.idx = jpgCtx.mcuIndex, !.conv = jpgCtx.mcuIndex, !.units = st.units,
               !.cfgOut = jpgCtx.yuvDataSize,
               !.pausedOut = TRUE, !.resumedOut = TRUE, !.calls = st.calls]
  /\ op' = [op EXCEPT !.sumUnits = @ + st.units, !.convs = Min(@ + 1, 2)]
  /\ UNCHANGED <<pc, firstTime, tableInits, fil, img, res, cfgSS>>


(* ---------------- encode entry point ---------------- *)
\* mutant: the rules on multiples of 16 apply to every colour space
WrongSize_AnyColorSpace(w, h, colorSpace, chromaSS) ==
  \/ w % 8 # 0
  \/ h % 8 # 0
  \/ (w % 16 # 0 /\ chromaSS # "444")
  \/ (h % 16 # 0 /\ chromaSS = "420")

\* the size rule of JPEG_Encode
WrongSize(w, h, colorSpace, chromaSS) ==
  \/ w % 8 # 0
  \/ h % 8 # 0
  \/ (w % 16 # 0 /\ colorSpace = "YCBCR" /\ chromaSS # "444")
  \/ (h % 16 # 0 /\ colorSpace = "YCBCR" /\ chromaSS = "420")

\* mutant: every stride is twice the source bytes of one unit
RgbDataSize_Double(colorSpace, chromaSS) ==
  IF colorSpace = "YCBCR"
  THEN (IF chromaSS = "420" THEN 1024 ELSE IF chromaSS = "422" THEN 512 ELSE 256)
  ELSE 256

\* per-unit source stride selected by JPEG_Encode
RgbDataSize(colorSpace, chromaSS) ==
  IF colorSpace = "YCBCR"
  THEN (IF chromaSS = "420" THEN 512 ELSE IF chromaSS = "422" THEN 256 ELSE 128)
  ELSE 128

\* the first unit is converted before the engine is started
PrimeUnit(c) == RGBToYCbCrFn(c.pRGBToYCbCrFn, c.rgbDataSize)

\* mutant: any quality is accepted
QualityOutOfRange_Never(quality) == FALSE

\* quality < JPEG_IMAGE_QUALITY_MIN || quality > JPEG_IMAGE_QUALITY_MAX
QualityOutOfRange(quality) == quality < 1 \/ quality > 100

\* mutant: the first unit is converted before the engine is configured
EncodeSteps_ConvertFirst(cfgOk) ==
  IF cfgOk THEN <<"Convert", "ConfigEncoding", "HAL_JPEG_Encode">>
  ELSE <<"Convert", "ConfigEncoding">>

\* what JPEG_Encode does with the engine and the converter once its
\* arguments are accepted, in program order: HAL_JPEG_ConfigEncoding and, if
\* that succeeds, the conversion of the first unit and HAL_JPEG_Encode
EncodeSteps(cfgOk) ==
  IF cfgOk THEN <<"ConfigEncoding", "Convert", "HAL_JPEG_Encode">>
  ELSE <<"ConfigEncoding">>

\* JPEG_Encode up to the blocking HAL_JPEG_Encode call: the value returned
\* early (or "blocking"), the context, the engine, the units converted
JPEG_Encode(c, h, fp, imp, im, colorSpace, chromaSS, quality, cfgOk) ==
  LET early(r) == [ret |-> r, ctx |-> c, hal |-> h, units |-> 0, convs |-> 0,
                   steps |-> <<>>]
  IN
  IF fp = "NULL" \/ imp = "NULL" THEN early("InvalidParameter")
  ELSE IF im.bpp \notin {"RGB565", "GRAYSCALE"} THEN early("UnsupportedFormat")
  ELSE IF colorSpace \notin ColorSpaces THEN early("InvalidParameter")
  ELSE IF chromaSS \notin Subsamplings THEN early("InvalidParameter")
  ELSE IF WrongSize(im.w, im.h, colorSpace, chromaSS) THEN early("WrongSize")
  ELSE IF QualityOutOfRange(quality) THEN early("InvalidParameter")
  ELSE
    LET c1 == [c EXCEPT !.file = "fp", !.fileOffset = 0,
                 !.info = [ColorSpace |-> colorSpace, ChromaSubsampling |-> chromaSS,
                           ImageHeight |-> im.h, ImageWidth |-> im.w,
                           ImageQuality |-> quality],
                 !.operation = "jpegOpEncoding",
                 !.mcuIndex = 0,
                 !.jpgDataPtr = "jpgDataBuffer",
                 !.jpgDataSize = JPG_DATA_BUFFER_SIZE,
                 !.rgbDataSize = RgbDataSize(colorSpace, chromaSS),
                 !.pRGBToYCbCrFn = ConvertFunc(colorSpace, chromaSS),
                 !.mcuTotal = MCUTotalNb(im.w, im.h, chromaSS)]
    IN
    IF ~cfgOk
    THEN [ret |-> "OpNotCompleted", ctx |-> c1, hal |-> h, units |-> 0, convs |-> 0,
          steps |-> EncodeSteps(FALSE)]
    ELSE
      LET c2 == [c1 EXCEPT !.rgbDataPtr = im.data,
                   !.yuvDataSize = YUV_DATA_BUFFER_SIZE,
                   !.yuvDataPtr = "yuvDataBuffer"]
          cv == PrimeUnit(c2)
          c3 == [c2 EXCEPT !.mcuIndex = @ + cv.units]
          \* HAL_JPEG_ConfigEncoding, then HAL_JPEG_Encode(yuvDataPtr, yuvBytesRead,
          \* jpgDataPtr, JPG_DATA_BUFFER_SIZE)
          h1 == [h EXCEPT !.configured = TRUE, !.running = TRUE,
                   !.need = c1.mcuTotal * McuSize(c1.pRGBToYCbCrFn),
                   !.inLen = cv.bytes, !.fed = cv.bytes,
                   !.outLen = JPG_DATA_BUFFER_SIZE]
      IN [ret |-> "blocking", ctx |-> c3, hal |-> h1, units |-> cv.units, convs |-> 1,
          steps |-> EncodeSteps(TRUE)]

\* JPEG_InitDriver(); res = JPEG_Encode(fp, img, colorSpace, chromaSS, quality)
\* up to the blocking call inside JPEG_Encode (or its early return)
InitDriverAndEncode(fp, imp, im, colorSpace, chromaSS, quality, cfgOk) ==
  LET drv == JPEG_InitDriver(hal, firstTime, tableInits)
      e   == JPEG_Encode(drv.ctx, drv.hal, fp, imp, im, colorSpace, chromaSS,
                         quality, cfgOk)
  IN
  /\ sig' = [NoSig EXCEPT !.op = "saveJPEGHW", !.first = firstTime]
  /\ firstTime' = drv.firstTime
  /\ tableInits' = drv.tableInits
  /\ jpgCtx' = e.ctx
  /\ hal' = e.hal
  /\ op' = [Ledger("encode", TRUE) EXCEPT !.opened = (fp # "NULL"),
              !.sumUnits = e.units, !.convs = e.convs,
              !.started = IF e.ret = "blocking" THEN 1 ELSE 0,
              !.trace = <<"InitDriver">> \o e.steps,
              !.pixels = IF imp # "NULL" /\ im.data # "NULL" THEN "caller" ELSE "none",
              !.args = [called |-> TRUE, fp |-> fp, imp |-> imp,
                        img |-> IF imp = "NULL" THEN EmptyImage ELSE im,
                        colorSpace |-> colorSpace, chromaSS |-> chromaSS,
                        quality |-> quality]]
  /\ IF e.ret = "blocking"
     THEN pc' = "encoding" /\ res' = "none"
     ELSE pc' = "sv_deinit" /\ res' = e.ret

\* img->bpp == IMAGE_BPP_GRAYSCALE ? JPEG_GRAYSCALE_COLORSPACE : JPEG_YCBCR_COLORSPACE
EncodeColorSpace(bpp) == IF bpp = "GRAYSCALE" THEN "GRAYSCALE" ELSE "YCBCR"

\* mutant: the configured subsampling is used for every image
EncodeChromaSS_Configured(bpp, ss) == ss

\* img->bpp == IMAGE_BPP_GRAYSCALE ? STM32IPL_JPEG_444_SUBSAMPLING
\*                                  : STM32IPL_JPEG_SUBSAMPLING
EncodeChromaSS(bpp, ss) == IF bpp = "GRAYSCALE" THEN "444" ELSE ss

\* saveJPEGHW up to the blocking call inside JPEG_Encode (or its early return)
saveJPEGHW(imgOk, nameOk, im, openOk, cfgOk) ==
  /\ pc = "idle"
  /\ UNCHANGED cfgSS
  /\ img' = IF imgOk THEN im ELSE EmptyImage
  /\ IF ~imgOk \/ ~nameOk \/ im.data = "NULL"
     THEN /\ res' = "InvalidParameter"
          /\ pc' = "done"
          /\ op' = [Ledger("encode", FALSE) EXCEPT
                      !.args = [NoArgs EXCEPT
                                  !.fp = IF nameOk THEN "fp" ELSE "NULL",
                                  !.imp = IF imgOk THEN "img" ELSE "NULL",
                                  !.img = IF imgOk THEN im ELSE EmptyImage]]
          /\ fil' = ZeroFil
          /\ sig' = [NoSig EXCEPT !.op = "saveJPEGHW"]
          /\ UNCHANGED <<jpgCtx, firstTime, tableInits, hal>>
     ELSE IF ~openOk
     THEN /\ res' = "OpeningFile"
          /\ pc' = "done"
          /\ op' = [Ledger("encode", FALSE) EXCEPT
                      !.args = [NoArgs EXCEPT !.fp = "fp", !.imp = "img", !.img = im]]
          /\ fil' = ZeroFil
          /\ sig' = [NoSig EXCEPT !.op = "saveJPEGHW"]
          /\ UNCHANGED <<jpgCtx, firstTime, tableInits, hal>>
     ELSE
       /\ fil' = [ZeroFil EXCEPT !.open = TRUE]         \* FA_WRITE | FA_CREATE_ALWAYS
       /\ InitDriverAndEncode("fp", "img", im,
                              EncodeColorSpace(im.bpp),
                              EncodeChromaSS(im.bpp, cfgSS),
                              STM32IPL_JPEG_QUALITY, cfgOk)

\* JPEG_Encode after HAL_JPEG_Encode has returned ret
JPEG_Encode_Return(ret) ==
  /\ pc = "encoding"
  /\ res' = IF ret = "HAL_OK" THEN "Ok" ELSE "OpNotCompleted"
  /\ pc' = "sv_deinit"
  /\ hal' = [hal EXCEPT !.running = FALSE]
  /\ op' = [op EXCEPT !.endIndex = jpgCtx.mcuIndex, !.endTotal = jpgCtx.mcuTotal,
              !.halRet = ret,
              !.trace = Append(@, ret)]
  /\ UNCHANGED <<jpgCtx, firstTime, tableInits, fil, img, cfgSS, sig>>

\* saveJPEGHW: JPEG_DeInitDriver()
saveJPEGHW_DeInit ==
  /\ pc = "sv_deinit"
  /\ LET fin == JPEG_DeInitDriver(hal)
     IN /\ jpgCtx' = fin.ctx
        /\ hal' = fin.hal
        /\ op' = [op EXCEPT !.pixels = PixelsAfter(@, jpgCtx.rgbDataPtr, fin.frees),
                    !.trace = Append(@, "DeInitDriver")]
  /\ pc' = "sv_close"
  /\ UNCHANGED <<firstTime, tableInits, fil, img, res, cfgSS, sig>>

\* saveJPEGHW: f_close(&fp); return res
saveJPEGHW_Close ==
  /\ pc = "sv_close"
  /\ fil' = [fil EXCEPT !.open = FALSE, !.closed = TRUE]
  /\ pc' = "done"
  /\ op' = [op EXCEPT !.trace = Append(@, "f_close")]
  /\ UNCHANGED <<jpgCtx, firstTime, tableInits, hal, img, res, cfgSS, sig>>

(* ---------------- callbacks, encode side ---------------- *)
\* mutant: off-by-one guard
MoreUnits_Le(c) == c.mcuIndex <= c.mcuTotal

\* the guard of the encoding branch of HAL_JPEG_GetDataCallback
MoreUnits(c) == c.mcuIndex < c.mcuTotal

\* mutant: at the end of the input the unit index starts again from 0
GetDataEncodingStep_Rewinds(c, h) ==
  IF MoreUnits(c)
  THEN
    LET cv == RGBToYCbCrFn(c.pRGBToYCbCrFn, c.rgbDataSize)
    IN  [ctx |-> [c EXCEPT !.mcuIndex = @ + cv.units],
         hal |-> [h EXCEPT !.inLen = cv.bytes, !.fed = @ + cv.bytes,
                    !.pausedIn = FALSE],
         more |-> TRUE, cv |-> cv, calls |-> <<"pRGBToYCbCrFn">>]
  ELSE
    [ctx |-> [c EXCEPT !.mcuIndex = 0], hal |-> [h EXCEPT !.inLen = 0],
     more |-> FALSE, cv |-> [units |-> 0, bytes |-> 0], calls |-> <<>>]

\* HAL_JPEG_GetDataCallback, encoding branch
GetDataEncodingStep(c, h) ==
  IF MoreUnits(c)
  THEN
    LET cv == RGBToYCbCrFn(c.pRGBToYCbCrFn, c.rgbDataSize)
    IN  [ctx |-> [c EXCEPT !.mcuIndex = @ + cv.units],
         hal |-> [h EXCEPT !.inLen = cv.bytes, !.fed = @ + cv.bytes,
                    !.pausedIn = FALSE],
         more |-> TRUE, cv |-> cv, calls |-> <<"pRGBToYCbCrFn">>]
  ELSE
    \* HAL_JPEG_ConfigInputBuffer(hjpg, jpgCtx.rgbDataPtr, 0)
    [ctx |-> c, hal |-> [h EXCEPT !.inLen = 0],
     more |-> FALSE, cv |-> [units |-> 0, bytes |-> 0], calls |-> <<>>]

\* HAL_JPEG_GetDataCallback, encoding branch, as a step of the program
GetDataEncoding(processedBytes) ==
  LET st == GetDataEncodingStep(jpgCtx, hal)
  IN
  /\ jpgCtx' = st.ctx
  /\ hal' = st.hal
  /\ IF st.more
     THEN
       /\ sig' = [NoSig EXCEPT !.op = "GetDataEnc", !.k = processedBytes,
                    !.n = jpgCtx.mcuTotal, !.idx = jpgCtx.mcuIndex,
                    !.conv = jpgCtx.mcuIndex, !.units = st.cv.units,
                    !.bytes = st.cv.bytes,
                    !.cfgIn = st.cv.bytes, !.pausedIn = TRUE, !.resumedIn = TRUE,
                    !.calls = st.calls]
       /\ op' = [op EXCEPT !.sumUnits = @ + st.cv.units, !.convs = Min(@ + 1, 2)]
     ELSE
       /\ sig' = [NoSig EXCEPT !.op = "GetDataEnc", !.k = processedBytes,
                    !.n = jpgCtx.mcuTotal, !.idx = jpgCtx.mcuIndex, !.cfgIn = 0]
       /\ op' = [op EXCEPT !.eois = Min(@ + 1, 2)]
  /\ UNCHANGED <<pc, firstTime, tableInits, fil, img, res, cfgSS>>

\* mutant: a failed write returns without aborting
AfterWrite_StayPaused(h, wrOk) ==
  IF wrOk
  THEN [h EXCEPT !.outLen = JPG_DATA_BUFFER_SIZE, !.pausedOut = FALSE]
  ELSE [h EXCEPT !.pausedOut = TRUE]

\* mutant: the result of f_write is ignored
AfterWrite_NoAbort(h, wrOk) ==
  [h EXCEPT !.outLen = JPG_DATA_BUFFER_SIZE, !.pausedOut = FALSE]

\* what the encoding branch of HAL_JPEG_DataReadyCallback does to the engine
\* once f_write has returned
AfterWrite(h, wrOk) ==
  IF wrOk
  THEN [h EXCEPT !.outLen = JPG_DATA_BUFFER_SIZE, !.pausedOut = FALSE]
  ELSE JPEG_ErrorHandler([h EXCEPT !.pausedOut = TRUE])

\* mutant: the handler seeks to the end of the storage object before it writes
DataReadyEncodingStep_SeeksEnd(c, h, f, wrOk, bytesWritten) ==
  [ctx |-> c,
   hal |-> [AfterWrite(h, wrOk) EXCEPT !.blocks = @ + 1],
   fil |-> [f EXCEPT !.fptr = f_lseek(f, f.fsize) + bytesWritten,
              !.fsize = @ + bytesWritten],
   calls |-> <<"f_lseek", "f_write">>]

\* HAL_JPEG_DataReadyCallback, encoding branch; the write stores bytesWritten
\* bytes and reports wrOk
DataReadyEncodingStep(c, h, f, wrOk, bytesWritten) ==
  [ctx |-> c,
   hal |-> [AfterWrite(h, wrOk) EXCEPT !.blocks = @ + 1],
   fil |-> [f EXCEPT !.fptr = @ + bytesWritten, !.fsize = @ + bytesWritten],
   calls |-> <<"f_write">>]

\* HAL_JPEG_DataReadyCallback, encoding branch, as a step of the program
DataReadyEncoding(outDataSize, wrOk, bytesWritten) ==
  LET st == DataReadyEncodingStep(jpgCtx, hal, fil, wrOk, bytesWritten)
  IN
  /\ hal' = st.hal
  /\ fil' = st.fil
  /\ sig' = [NoSig EXCEPT !.op = "DataReadyEnc", !.n = outDataSize,
               !.wrote = bytesWritten, !.readOk = wrOk,
               !.cfgOut = IF st.hal.aborted THEN -1 ELSE st.hal.outLen,
               !.pausedOut = TRUE,
               !.resumedOut = ~st.hal.pausedOut,
               !.aborts = IF st.hal.aborted THEN 1 ELSE 0,
               !.calls = st.calls]
  /\ op' = [op EXCEPT !.aborts = @ + (IF st.hal.aborted THEN 1 ELSE 0),
              !.wfail = @ \/ ~wrOk, !.produced = @ + outDataSize]
  /\ UNCHANGED <<pc, jpgCtx, firstTime, tableInits, img, res, cfgSS>>

\* HAL_JPEG_ErrorCallback
HAL_JPEG_ErrorCallback ==
  /\ hal' = JPEG_ErrorHandler(hal)
  /\ sig' = [NoSig EXCEPT !.op = "Error", !.aborts = 1]
  /\ op' = [op EXCEPT !.aborts = @ + 1]
  /\ UNCHANGED <<pc, jpgCtx, firstTime, tableInits, fil, img, res, cfgSS>>


\* HAL_JPEG_GetDataCallback(hjpg, processedBytes)
HAL_JPEG_GetDataCallback(processedBytes, seekOk, readOk) ==
  IF jpgCtx.operation = "jpegOpDecoding"
  THEN GetDataDecoding(processedBytes, seekOk, readOk)
  ELSE GetDataEncoding(processedBytes)

\* HAL_JPEG_DataReadyCallback(hjpg, outDataPtr, outDataSize)
HAL_JPEG_DataReadyCallback(outDataSize, wrOk, bytesWritten) ==
  IF jpgCtx.operation = "jpegOpDecoding"
  THEN DataReadyDecoding(outDataSize) /\ UNCHANGED fil
  ELSE DataReadyEncoding(outDataSize, wrOk, bytesWritten)

\* the two handlers as functions of the context, the engine and the storage
\* object, for one need-input signal in and one have-output signal out
NeedInput(s, in) ==
  IF s.ctx.operation = "jpegOpDecoding"
  THEN LET st == GetDataDecodingStep(s.ctx, s.hal, s.fil, in.k, in.seekOk, in.readOk)
       IN  [ctx |-> st.ctx, hal |-> st.hal, fil |-> st.fil]
  ELSE LET st == GetDataEncodingStep(s.ctx, s.hal)
       IN  [ctx |-> st.ctx, hal |-> st.hal, fil |-> s.fil]

HaveOutput(s, out) ==
  IF s.ctx.operation = "jpegOpDecoding"
  THEN LET st == DataReadyDecodingStep(s.ctx, s.hal, out.size)
       IN  [ctx |-> st.ctx, hal |-> st.hal, fil |-> s.fil]
  ELSE LET st == DataReadyEncodingStep(s.ctx, s.hal, s.fil, out.wrOk, out.bw)
       IN  [ctx |-> st.ctx, hal |-> st.hal, fil |-> st.fil]

(* ---------------- the engine and the callers ---------------- *)
\* stream headers the engine can report
Headers == {hd \in [w : Dims, h : {8 * MaxDimUnits}, cs : ColorSpaces,
                     ss : Subsamplings] :
              hd.cs # "YCBCR" => hd.ss = "444"}

\* the images handed to the encoder: the sizes of Dims and a 32 x 32 image
SourceImages ==
  [w : Dims, h : Dims, bpp : {"GRAYSCALE", "RGB565", "BINARY"},
   data : {"pixels", "NULL"}]
    \cup [w : {32}, h : {32}, bpp : {"RGB565"}, data : {"pixels"}]

\* the engine raises callbacks only while its blocking call runs and it has
\* not been aborted
Signalling == pc \in {"decoding", "encoding"} /\ hal.running /\ ~hal.aborted

CallDecode ==
  /\ pc = "idle"
  /\ \E imgOk, fpOk, seekOk, readOk \in BOOLEAN, size \in FileSizes :
       readJPEGHW(imgOk, fpOk, size, seekOk, readOk)

CallEncode ==
  /\ pc = "idle"
  /\ \E imgOk, nameOk, openOk, cfgOk \in BOOLEAN, im \in SourceImages :
       saveJPEGHW(imgOk, nameOk, im, openOk, cfgOk)

HeaderReady ==
  /\ pc = "decoding" /\ Signalling /\ ~hal.hdr
  /\ \E allocOk \in BOOLEAN, hd \in Headers :
       HAL_JPEG_InfoReadyCallback(
         [ColorSpace |-> hd.cs, ChromaSubsampling |-> hd.ss,
          ImageHeight |-> hd.h, ImageWidth |-> hd.w, ImageQuality |-> 0],
         allocOk, TRUE)

\* the header is one the converter selector rejects
HeaderRejected ==
  /\ pc = "decoding" /\ Signalling /\ ~hal.hdr
  /\ \E allocOk \in BOOLEAN, hd \in Headers :
       HAL_JPEG_InfoReadyCallback(
         [ColorSpace |-> hd.cs, ChromaSubsampling |-> hd.ss,
          ImageHeight |-> hd.h, ImageWidth |-> hd.w, ImageQuality |-> 0],
         allocOk, FALSE)

\* the decoding branch of HAL_JPEG_DataReadyCallback calls through a null
\* pYCbCrToRGBFn and the call does not return (a fault); that it returns
\* some number of units is the other outcome, which HaveOutputDecode covers
NullCallFaults ==
  /\ pc = "decoding" /\ Signalling /\ ~hal.pausedOut
  /\ hal.hdr /\ hal.outLeft > 0
  /\ jpgCtx.pYCbCrToRGBFn = "NULL"
  /\ pc' = "fault"
  /\ hal' = [hal EXCEPT !.pausedOut = TRUE]
  /\ sig' = [NoSig EXCEPT !.op = "DataReadyDec",
               !.n = Min(hal.outLen, hal.outLeft),
               !.idx = jpgCtx.mcuIndex, !.conv = jpgCtx.mcuIndex,
               !.pausedOut = TRUE, !.calls = <<"pYCbCrToRGBFn">>]
  /\ UNCHANGED <<jpgCtx, firstTime, tableInits, fil, img, res, cfgSS, op>>

NeedInputDecode ==
  /\ pc = "decoding" /\ Signalling /\ ~hal.pausedIn
  /\ op.reads < MaxReads \/ hal.inLen = 0
  /\ \E r \in 0..MaxRewind, seekOk, readOk \in BOOLEAN :
       /\ r <= hal.inLen
       /\ HAL_JPEG_GetDataCallback(hal.inLen - r, seekOk, readOk)

HaveOutputDecode ==
  /\ pc = "decoding" /\ Signalling /\ ~hal.pausedOut
  /\ hal.hdr /\ hal.outLeft > 0
  /\ HAL_JPEG_DataReadyCallback(Min(hal.outLen, hal.outLeft), TRUE, 0)

NeedInputEncode ==
  /\ pc = "encoding" /\ Signalling /\ ~hal.pausedIn
  /\ HAL_JPEG_GetDataCallback(hal.inLen, TRUE, TRUE)

HaveOutputEncode ==
  /\ pc = "encoding" /\ Signalling /\ ~hal.pausedOut
  /\ hal.blocks < MaxOutBlocks
  /\ \E size \in OutSizes, wrOk \in BOOLEAN, short \in BOOLEAN :
       HAL_JPEG_DataReadyCallback(size, wrOk,
         IF ~wrOk THEN 0 ELSE IF short THEN size - 1 ELSE size)

\* JPEG_Encode called, as saveJPEGHW calls it, with arguments of any value on
\* a storage object its caller has opened
JPEG_EncodeCall(fp, imp, im, colorSpace, chromaSS, quality, cfgOk) ==
  /\ pc = "idle"
  /\ UNCHANGED cfgSS
  /\ img' = IF imp = "NULL" THEN EmptyImage ELSE im
  /\ fil' = [ZeroFil EXCEPT !.open = (fp # "NULL")]
  /\ InitDriverAndEncode(fp, imp, im, colorSpace, chromaSS, quality, cfgOk)

\* uint8_t quality values offered to JPEG_Encode
Qualities == {0, STM32IPL_JPEG_QUALITY, 101}

CallJPEG_Encode ==
  /\ pc = "idle"
  /\ \E fp \in {"fp", "NULL"}, imp \in {"img", "NULL"},
        im \in {i \in SourceImages : i.data # "NULL"},
        colorSpace \in ColorSpaces \cup {"OTHER"},
        chromaSS \in Subsamplings \cup {"OTHER"},
        quality \in Qualities, cfgOk \in BOOLEAN :
       JPEG_EncodeCall(fp, imp, im, colorSpace, chromaSS, quality, cfgOk)

EngineError ==
  /\ Signalling
  /\ HAL_JPEG_ErrorCallback

\* HAL_JPEG_Decode returns HAL_OK once the whole image has been handed out
DecodeCompletes ==
  /\ Signalling /\ hal.hdr /\ hal.outLeft = 0 /\ ~hal.pausedOut
  /\ readJPEGHW_Return("HAL_OK")

\* mutant: the blocking calls wait without limit (HAL_MAX_DELAY)
BoundedWait_Never(Timeout) == FALSE

\* Timeout != HAL_MAX_DELAY (0xFFFFFFFF): the polling loop of the blocking
\* call compares the elapsed ticks with Timeout after each processing step
BoundedWait(Timeout) ==
  ~(Timeout \div 65536 = 65535 /\ Timeout % 65536 = 65535)

\* HAL_JPEG_Decode returns a failure: the engine was aborted, or
\* JPEG_HAL_DELAY ticks have elapsed
DecodeFails ==
  /\ BoundedWait(JPEG_HAL_DELAY) \/ hal.aborted
  /\ readJPEGHW_Return("HAL_TIMEOUT")

\* HAL_JPEG_Encode returns HAL_OK once the engine got every MCU it was
\* configured for and has flushed its output
EncodeCompletes ==
  /\ Signalling /\ hal.need > 0 /\ hal.fed >= hal.need
  /\ hal.blocks >= 1 /\ ~hal.pausedOut
  /\ JPEG_Encode_Return("HAL_OK")

\* HAL_JPEG_Encode returns a failure: the engine was aborted, or
\* JPEG_HAL_DELAY ticks have elapsed
EncodeFails ==
  /\ BoundedWait(JPEG_HAL_DELAY) \/ hal.aborted
  /\ JPEG_Encode_Return("HAL_TIMEOUT")

\* the caller makes its next call
NextCall ==
  /\ pc = "done"
  /\ pc' = "idle"
  /\ res' = "none" /\ sig' = NoSig /\ op' = NoOp
  /\ fil' = ZeroFil /\ img' = EmptyImage
  /\ UNCHANGED <<jpgCtx, firstTime, tableInits, hal, cfgSS>>

Init ==
  /\ pc = "idle"
  /\ jpgCtx = ZeroCtx
  /\ firstTime = 0
  /\ tableInits = 0
  /\ hal = ZeroHal
  /\ fil = ZeroFil
  /\ img = EmptyImage
  /\ res = "none"
  /\ cfgSS \in Subsamplings
  /\ sig = NoSig
  /\ op = NoOp

Next ==
  \/ CallDecode
  \/ HeaderReady
  \/ NeedInputDecode
  \/ HaveOutputDecode
  \/ DecodeCompletes
  \/ DecodeFails
  \/ CallEncode
  \/ NeedInputEncode
  \/ HaveOutputEncode
  \/ EncodeCompletes
  \/ EncodeFails
  \/ saveJPEGHW_DeInit
  \/ saveJPEGHW_Close
  \/ EngineError
  \/ NextCall

Spec == Init /\ [][Next]_vars

\* the encoder alone, JPEG_Encode being given every combination of arguments
NextEncode ==
  \/ CallEncode
  \/ CallJPEG_Encode
  \/ NeedInputEncode
  \/ HaveOutputEncode
  \/ EncodeCompletes
  \/ EncodeFails
  \/ saveJPEGHW_DeInit
  \/ saveJPEGHW_Close
  \/ EngineError
  \/ NextCall

SpecEncode == Init /\ [][NextEncode]_vars

\* the decoder with a converter selector that may reject the header the
\* engine reports
NextSelector ==
  \/ CallDecode
  \/ HeaderReady
  \/ HeaderRejected
  \/ NeedInputDecode
  \/ HaveOutputDecode
  \/ NullCallFaults
  \/ DecodeCompletes
  \/ DecodeFails
  \/ EngineError
  \/ NextCall

SpecSelector == Init /\ [][NextSelector]_vars

\* header sides up to the largest a JPEG header can hold
HeaderSides == {1, 8, 255, 256, 32768, 46340, 46341, 65535}

\* the size computation of HAL_JPEG_InfoReadyCallback applied to a header
InfoReadySize ==
  /\ pc = "idle"
  /\ \E w, h \in HeaderSides, cs \in ColorSpaces :
       LET pInfo == [ColorSpace |-> cs, ChromaSubsampling |-> "444",
                     ImageHeight |-> h, ImageWidth |-> w, ImageQuality |-> 0]
       IN  op' = [NoOp EXCEPT !.kind = "decode", !.hdr = pInfo,
                    !.size32 = RgbBufferSize(pInfo)]
  /\ UNCHANGED <<pc, jpgCtx, firstTime, tableInits, hal, fil, img, res, cfgSS, sig>>

\* the size computation alone, over headers of every magnitude
SpecSize == Init /\ [][InfoReadySize]_vars

\* the program with time passing: the tick counter advances while a blocking
\* call polls the engine, so the failure return of a call that is still
\* waiting is eventually taken, and the straight-line code after the
\* blocking call of saveJPEGHW runs to its return
SpecLive ==
  /\ Init /\ [][Next]_vars
  /\ WF_vars(DecodeFails) /\ WF_vars(EncodeFails)
  /\ WF_vars(saveJPEGHW_DeInit) /\ WF_vars(saveJPEGHW_Close)


(* ======================= properties ======================= *)
Streaming == pc \in {"decoding", "encoding"}

\* C1: offset correction. When the decode need-input handler is entered with
\* k consumed bytes out of a chunk of n bytes, k < n, it seeks to, and the
\* next storage read starts at, (position the chunk was read from) + k.
C1_ReadStartsAtConsumed ==
  (sig.op = "GetDataDec" /\ sig.k < sig.n /\ sig.readOk) =>
    (sig.seekTo = sig.prevAt + sig.k /\ sig.readAt = sig.prevAt + sig.k)

\* C2 as stated: during a decode fileOffset is the stream position up to
\* which the engine has consumed input.
C2_OffsetIsConsumed ==
  pc = "decoding" => jpgCtx.fileOffset = op.consumed

\* C2 as amended: while the engine of a decode has not been aborted,
\* fileOffset is the storage read position, which runs ahead of the consumed
\* position by exactly the size of the chunk last handed to the engine.
C2_OffsetRunsAheadByChunk ==
  (pc = "decoding" /\ ~hal.aborted) =>
    /\ jpgCtx.fileOffset = op.consumed + jpgCtx.jpgDataSize
    /\ jpgCtx.fileOffset = fil.fptr
    /\ fil.chunkAt = op.consumed

C2_Witness ==
  /\ pc = "decoding" /\ ~hal.aborted
  /\ sig.op = "GetDataDec" /\ sig.k < sig.n /\ sig.readOk
  /\ op.consumed > JPG_DATA_BUFFER_SIZE

\* C3: in every state of a running operation 0 <= mcuIndex <= mcuTotal.
C3_UnitIndexBounded ==
  Streaming => (0 <= jpgCtx.mcuIndex /\ jpgCtx.mcuIndex <= jpgCtx.mcuTotal)

\* C4: unit accounting. Every conversion is called with the sum of the units
\* returned before it, and an operation that ends with Ok has converted
\* exactly mcuTotal units.
C4_UnitAccounting ==
  /\ Streaming => jpgCtx.mcuIndex = op.sumUnits
  /\ (Streaming /\ sig.conv # -1) => sig.conv + sig.units = op.sumUnits
  /\ (op.kind # "none" /\ res = "Ok") =>
       (op.sumUnits = op.endTotal /\ op.endIndex = op.endTotal)

C4_Witness ==
  /\ op.kind = "encode" /\ res = "Ok" /\ pc = "done"
  /\ op.sumUnits >= 2 /\ op.convs = 2

\* C5: the encode need-input handler converts the unit at mcuIndex, advances
\* mcuIndex by the units consumed, hands over exactly the bytes produced and
\* resumes when mcuIndex < mcuTotal; otherwise it converts nothing and hands
\* over a zero-length buffer without resuming.
C5_EncodeNeedInput ==
  (pc = "encoding" /\ sig.op = "GetDataEnc") =>
    /\ sig.idx < sig.n =>
         /\ sig.conv = sig.idx
         /\ jpgCtx.mcuIndex = sig.idx + sig.units
         /\ sig.cfgIn = sig.bytes /\ hal.inLen = sig.bytes
         /\ sig.pausedIn /\ sig.resumedIn /\ ~hal.pausedIn
    /\ sig.idx >= sig.n =>
         /\ sig.conv = -1
         /\ jpgCtx.mcuIndex = sig.idx
         /\ sig.cfgIn = 0 /\ hal.inLen = 0
         /\ ~sig.resumedIn

C5_Witness ==
  /\ pc = "encoding" /\ sig.op = "GetDataEnc"
  /\ sig.idx = sig.n /\ sig.n >= 2 /\ sig.cfgIn = 0

\* C6: a failed write in the encode have-output handler aborts the engine
\* exactly once, hands over no new output buffer, does not resume, is the last
\* callback of the operation, and the entry point returns OpNotCompleted.
C6_WriteFailure ==
  op.wfail =>
    /\ op.aborts = 1
    /\ sig.op = "DataReadyEnc" /\ ~sig.readOk
    /\ sig.cfgOut = -1 /\ ~sig.resumedOut
    /\ pc # "encoding" => res = "OpNotCompleted"

C6_Witness ==
  /\ op.wfail /\ pc = "sv_deinit" /\ res = "OpNotCompleted"
  /\ hal.blocks = 2

\* C7: a seek or read failure in the decode need-input handler aborts the
\* engine; decode then returns OpNotCompleted and leaves the image empty.
C7_DecodeIoFailure ==
  (op.kind = "decode" /\ sig.op = "GetDataDec" /\ (~sig.seekOk \/ ~sig.readOk)) =>
    /\ sig.aborts >= 1
    /\ pc = "decoding" => hal.aborted
    /\ pc = "done" => (res = "OpNotCompleted" /\ img = EmptyImage)

C7_Witness ==
  /\ op.kind = "decode" /\ sig.op = "GetDataDec" /\ ~sig.seekOk /\ sig.readOk
  /\ pc = "done" /\ res = "OpNotCompleted"

\* C8: a failed pixel-buffer allocation in the header-ready handler aborts
\* the engine; decode never returns Ok with a null pixel buffer and the
\* image stays empty.
C8_AllocFailure ==
  /\ op.allocFail =>
       /\ pc = "decoding" => hal.aborted
       /\ pc = "done" => (res = "OpNotCompleted" /\ img = EmptyImage)
  /\ (op.kind = "decode" /\ res = "Ok") => img.data # "NULL"

C8_Witness ==
  op.allocFail /\ pc = "done" /\ res = "OpNotCompleted" /\ img = EmptyImage

\* C9: whenever decode has initialised the engine, the engine is
\* de-initialised and the context zeroed when decode returns.
C9_DecodeTeardown ==
  (pc = "done" /\ op.kind = "decode" /\ op.inited) =>
    (~hal.inited /\ jpgCtx = ZeroCtx)

C11_ValidationNoIO ==
  (op.kind = "encode" /\ res \in {"WrongSize", "InvalidParameter"}) =>
    (~op.opened /\ ~fil.open /\ ~fil.closed)

\* the calls of JPEG_Encode that get as far as the size rule
C12_Applies ==
  /\ op.kind = "encode" /\ op.args.called
  /\ op.args.fp # "NULL" /\ op.args.imp # "NULL"
  /\ op.args.img.bpp \in {"RGB565", "GRAYSCALE"}
  /\ op.args.colorSpace \in ColorSpaces
  /\ op.args.chromaSS \in Subsamplings

\* C12 as stated: encode returns WrongSize if and only if width or height is
\* not a multiple of 8, or the subsampling is 4:2:0 or 4:2:2 and the width is
\* not a multiple of 16, or the subsampling is 4:2:0 and the height is not a
\* multiple of 16, whatever the colour space.
C12_SizeRuleAsStated ==
  C12_Applies =>
    (res = "WrongSize" <=>
       \/ op.args.img.w % 8 # 0
       \/ op.args.img.h % 8 # 0
       \/ (op.args.chromaSS \in {"420", "422"} /\ op.args.img.w % 16 # 0)
       \/ (op.args.chromaSS = "420" /\ op.args.img.h % 16 # 0))

\* C12 as amended: the two rules on multiples of 16 apply only when the colour
\* space is YCbCr; for Grayscale and CMYK the subsampling is ignored and only
\* the multiple-of-8 rule applies.
C12_SizeRuleYCbCrOnly ==
  C12_Applies =>
    (res = "WrongSize" <=>
       \/ op.args.img.w % 8 # 0
       \/ op.args.img.h % 8 # 0
       \/ (op.args.colorSpace = "YCBCR" /\ op.args.chromaSS \in {"420", "422"}
             /\ op.args.img.w % 16 # 0)
       \/ (op.args.colorSpace = "YCBCR" /\ op.args.chromaSS = "420"
             /\ op.args.img.h % 16 # 0))

C12_Witness ==
  /\ C12_Applies /\ pc = "encoding"
  /\ op.args.colorSpace = "GRAYSCALE" /\ op.args.chromaSS = "420"
  /\ op.args.img.w = 8 /\ op.args.img.h = 8

\* C13: encode parameter errors. A null image, null pixel data or null
\* storage gives InvalidParameter; with those present, a pixel format other
\* than grayscale and RGB565 gives UnsupportedFormat; with the format
\* accepted, a colour space or a subsampling outside the supported sets gives
\* InvalidParameter; with all of these and the size accepted, a quality
\* outside the range gives InvalidParameter. In each case the call writes no
\* context field, runs no conversion and neither configures nor starts the
\* engine.
C13_ParamErrors ==
  [][(pc = "idle" /\ op'.kind = "encode") =>
       LET a  == op'.args
           ok1 == a.fp # "NULL" /\ a.imp # "NULL" /\ a.img.data # "NULL"
           ok2 == ok1 /\ a.called /\ a.img.bpp \in {"RGB565", "GRAYSCALE"}
           ok3 == ok2 /\ a.colorSpace \in ColorSpaces
           ok4 == ok3 /\ a.chromaSS \in Subsamplings
           ok5 == ok4 /\ a.img.w % 16 = 0 /\ a.img.h % 16 = 0
       IN
       /\ ~ok1 => res' = "InvalidParameter"
       /\ (ok1 /\ a.called /\ ~ok2) => res' = "UnsupportedFormat"
       /\ (ok2 /\ ~ok3) => res' = "InvalidParameter"
       /\ (ok3 /\ ~ok4) => res' = "InvalidParameter"
       /\ (ok5 /\ (a.quality < 1 \/ a.quality > 100)) => res' = "InvalidParameter"
       /\ res' \in {"InvalidParameter", "UnsupportedFormat"} =>
            /\ jpgCtx' = IF op'.inited THEN ZeroCtx ELSE jpgCtx
            /\ op'.convs = 0 /\ op'.sumUnits = 0 /\ op'.started = 0
            /\ ~hal'.configured /\ ~hal'.running
     ]_vars

C13_Witness ==
  /\ op.kind = "encode" /\ op.args.called /\ pc = "sv_deinit"
  /\ res = "InvalidParameter"
  /\ op.args.fp = "fp" /\ op.args.imp = "img"
  /\ op.args.img.bpp = "RGB565" /\ op.args.img.w = 16 /\ op.args.img.h = 16
  /\ op.args.colorSpace = "YCBCR" /\ op.args.chromaSS = "420"
  /\ op.args.quality = 101

\* C14 as stated: whenever decode returns a failure the output image is
\* empty: width 0, height 0, format 0, null data pointer.
C14_FailureLeavesEmpty ==
  (op.kind = "decode" /\ pc = "done" /\ res # "Ok") =>
    (img.w = 0 /\ img.h = 0 /\ img.bpp = "0" /\ img.data = "NULL")

\* C14 as amended: the image is empty whenever decode returns SeekingFile,
\* ReadingFile or OpNotCompleted; a decode that returns InvalidParameter has
\* not touched the image it was given.
C14_FailureAfterResetLeavesEmpty ==
  (op.kind = "decode" /\ pc = "done") =>
    /\ res \in {"SeekingFile", "ReadingFile", "OpNotCompleted"} =>
         (img.w = 0 /\ img.h = 0 /\ img.bpp = "0" /\ img.data = "NULL")
    /\ res = "InvalidParameter" => img \in {StaleImage, EmptyImage}
    /\ res \in {"Ok", "InvalidParameter", "SeekingFile", "ReadingFile",
                "OpNotCompleted"}

C14_Witness ==
  /\ op.kind = "decode" /\ pc = "done" /\ res = "OpNotCompleted"
  /\ op.pixels = "live" /\ op.sumUnits > 0
  /\ img.w = 0 /\ img.data = "NULL"

\* C15: whenever decode returns Ok the image carries the width and height the
\* header-ready callback reported, the format derived from the colour space
\* (grayscale for a grayscale stream, RGB565 otherwise) and the non-null
\* pixel buffer of width * height * bytes-per-pixel bytes that header-ready
\* allocated, the fields having been read before the context was cleared.
C15_DecodeOkImage ==
  (op.kind = "decode" /\ pc = "done" /\ res = "Ok") =>
    /\ img.w = op.hdr.ImageWidth /\ img.h = op.hdr.ImageHeight
    /\ img.bpp = (IF op.hdr.ColorSpace = "GRAYSCALE" THEN "GRAYSCALE" ELSE "RGB565")
    /\ img.data = "heap" /\ op.pixels = "live"
    /\ op.allocSize = img.w * img.h * (IF img.bpp = "GRAYSCALE" THEN 1 ELSE 2)
    /\ jpgCtx = ZeroCtx

C15_Witness ==
  /\ op.kind = "decode" /\ pc = "done" /\ res = "Ok"
  /\ img.w = 16 /\ img.h = 16 /\ img.bpp = "GRAYSCALE" /\ img.data = "heap"
  /\ op.allocSize = 256

\* C16: decode start-up. A failed seek to offset 0 returns SeekingFile with
\* the engine not initialised and storage not read; a failed first read
\* returns ReadingFile with the blocking call not started; otherwise, when
\* the engine is started, fileOffset is the number of bytes actually read,
\* which is at most the size of the bitstream buffer.
C16_DecodeStartUp ==
  op.kind = "decode" =>
    /\ res = "SeekingFile" =>
         (~op.inited /\ sig.first = -1 /\ op.reads = 0 /\ fil.fptr = 0
            /\ op.started = 0)
    /\ res = "ReadingFile" =>
         (op.inited /\ op.reads = 1 /\ op.started = 0 /\ ~hal.running
            /\ sig.op = "readJPEGHW" /\ ~sig.readOk)
    /\ (pc = "decoding" /\ sig.op = "readJPEGHW") =>
         /\ op.started = 1 /\ hal.running /\ op.reads = 1
         /\ jpgCtx.fileOffset = op.bytesRead
         /\ jpgCtx.fileOffset = Min(fil.fsize, JPG_DATA_BUFFER_SIZE)
         /\ jpgCtx.fileOffset <= JPG_DATA_BUFFER_SIZE
         /\ hal.inLen = jpgCtx.fileOffset

C16_Witness ==
  /\ op.kind = "decode" /\ pc = "decoding" /\ sig.op = "readJPEGHW"
  /\ fil.fsize = 100 /\ jpgCtx.fileOffset = 100

\* C17 as stated: over a decode that ends in success and has read the stream
\* to its end, the number of bytes read from storage is the file size.
C17_BytesReadIsFileSize ==
  (op.kind = "decode" /\ pc = "done" /\ res = "Ok" /\ fil.fptr = fil.fsize) =>
    op.bytesRead = fil.fsize

\* C17 as amended: over a decode that ends in success every read started at
\* the position the engine had consumed up to, so no byte is skipped, and
\* the bytes of a chunk the engine had not consumed are read a second time:
\* the number of bytes read is the final read position plus the bytes taken
\* back.
C17_BytesReadIsPositionPlusTakenBack ==
  (op.kind = "decode" /\ pc = "done" /\ res = "Ok") =>
    /\ fil.chunkAt = op.consumed
    /\ op.bytesRead = fil.fptr + op.takenBack
    /\ op.takenBack >= 0

C17_Witness ==
  /\ op.kind = "decode" /\ pc = "done" /\ res = "Ok"
  /\ fil.fptr = fil.fsize /\ fil.fsize > JPG_DATA_BUFFER_SIZE
  /\ op.takenBack > 0 /\ op.bytesRead = fil.fsize + op.takenBack

\* C18: buffer bounds. While an operation runs the recorded size of the
\* sample buffer is 768 and that of the bitstream buffer at most 512; every
\* storage read asks for at most 512 bytes, and every input or output length
\* handed to the engine is at most the size of the staging buffer it points
\* into.
C18_BufferBounds ==
  /\ sig.btr <= JPG_DATA_BUFFER_SIZE
  /\ pc = "decoding" =>
       /\ jpgCtx.yuvDataSize = YUV_DATA_BUFFER_SIZE
       /\ jpgCtx.jpgDataSize <= JPG_DATA_BUFFER_SIZE
       /\ hal.inLen <= JPG_DATA_BUFFER_SIZE /\ sig.cfgIn <= JPG_DATA_BUFFER_SIZE
       /\ hal.outLen <= YUV_DATA_BUFFER_SIZE /\ sig.cfgOut <= YUV_DATA_BUFFER_SIZE
  /\ pc = "encoding" =>
       /\ jpgCtx.yuvDataSize = YUV_DATA_BUFFER_SIZE
       /\ jpgCtx.jpgDataSize = JPG_DATA_BUFFER_SIZE
       /\ hal.inLen <= YUV_DATA_BUFFER_SIZE /\ sig.cfgIn <= YUV_DATA_BUFFER_SIZE
       /\ sig.bytes <= YUV_DATA_BUFFER_SIZE
       /\ hal.outLen <= JPG_DATA_BUFFER_SIZE /\ sig.cfgOut <= JPG_DATA_BUFFER_SIZE

C18_Witness ==
  /\ pc = "decoding" /\ sig.op = "GetDataDec" /\ sig.btr = JPG_DATA_BUFFER_SIZE
  /\ sig.cfgIn = 7 /\ op.hdr.ImageWidth = 16 /\ hal.outLen = YUV_DATA_BUFFER_SIZE
  /\ op.sumUnits > 0

\* C19: the colour tables are initialised exactly once, at the first
\* JPEG_InitDriver, while every JPEG_InitDriver clears the context and
\* initialises the engine.
C19_TablesOnce ==
  /\ tableInits = (IF firstTime = 1 THEN 1 ELSE 0)
  /\ sig.first # -1 =>
       /\ firstTime = 1 /\ tableInits = 1
       /\ op.inited
       /\ pc \in {"decoding", "encoding", "sv_deinit"} => hal.inited
       /\ (sig.op = "readJPEGHW") =>
            (jpgCtx.info = ZeroInfo /\ jpgCtx.pRGBToYCbCrFn = "NULL"
               /\ jpgCtx.pYCbCrToRGBFn = "NULL" /\ jpgCtx.mcuIndex = 0)
       /\ (sig.op = "saveJPEGHW" /\ pc = "sv_deinit" /\ res # "OpNotCompleted") =>
            jpgCtx = ZeroCtx
  /\ (op.inited /\ sig.op \in {"readJPEGHW", "saveJPEGHW"}) => sig.first # -1

C19_Witness ==
  /\ sig.first = 1 /\ sig.op = "readJPEGHW" /\ pc = "decoding"
  /\ tableInits = 1

\* C20: pixel buffer ownership. An encode leaves the caller's image
\* descriptor as it was passed and never releases its pixel buffer; the
\* pixel buffer a decode allocated in header-ready is not released by the
\* tear-down and is still allocated once the context has been cleared.
C20_PixelOwnership ==
  /\ (op.kind = "encode" /\ op.args.called) =>
       (img = op.args.img /\ op.pixels = "caller")
  /\ (op.kind = "decode" /\ op.allocSize # -1 /\ ~op.allocFail) =>
       op.pixels = "live"
  /\ op.pixels # "freed"

C20_Witness ==
  /\ op.kind = "decode" /\ pc = "done" /\ res = "OpNotCompleted"
  /\ jpgCtx = ZeroCtx /\ ~hal.inited /\ op.pixels = "live"

\* C21: leak on failed decode. When a decode fails after header-ready has
\* allocated the pixel buffer, the buffer is still allocated when decode
\* returns, and neither the image, which is empty, nor the cleared context
\* points to it.
C21_LeakOnFailedDecode ==
  (op.kind = "decode" /\ pc = "done" /\ res # "Ok"
     /\ op.allocSize # -1 /\ ~op.allocFail) =>
    /\ op.pixels = "live"
    /\ img.data = "NULL" /\ img.w = 0 /\ img.h = 0
    /\ jpgCtx.rgbDataPtr = "NULL" /\ jpgCtx.rgbDataSize = 0

C21_Witness ==
  /\ op.kind = "decode" /\ pc = "done" /\ res = "OpNotCompleted"
  /\ op.allocSize > 0 /\ ~op.allocFail /\ op.pixels = "live"
  /\ img.data = "NULL" /\ jpgCtx.rgbDataPtr = "NULL" /\ op.convs = 0

\* C22: colour space selection by saveJPEGHW. A grayscale image is encoded
\* as Grayscale with 4:4:4 subsampling whatever subsampling is configured;
\* every other image is passed on as YCbCr with the configured subsampling;
\* the quality is the configured quality, 90.
C22_ColorSpaceSelection ==
  (op.kind = "encode" /\ op.args.called) =>
    /\ op.args.img.bpp = "GRAYSCALE" =>
         (op.args.colorSpace = "GRAYSCALE" /\ op.args.chromaSS = "444")
    /\ op.args.img.bpp # "GRAYSCALE" =>
         (op.args.colorSpace = "YCBCR" /\ op.args.chromaSS = cfgSS)
    /\ op.args.quality = 90
    /\ pc = "encoding" =>
         /\ jpgCtx.info.ColorSpace = op.args.colorSpace
         /\ jpgCtx.info.ChromaSubsampling = op.args.chromaSS
         /\ jpgCtx.info.ImageQuality = 90

C22_Witness ==
  /\ op.kind = "encode" /\ op.args.called /\ pc = "encoding"
  /\ cfgSS = "420" /\ op.args.img.bpp = "GRAYSCALE" /\ op.args.img.w = 8
  /\ jpgCtx.info.ChromaSubsampling = "444"

\* a 32 x 32 RGB565 image being encoded with 4:2:0 subsampling
C23_Applies ==
  /\ op.kind = "encode" /\ op.args.called
  /\ op.args.img.w = 32 /\ op.args.img.h = 32 /\ op.args.img.bpp = "RGB565"
  /\ op.args.chromaSS = "420"

C24_Terminates ==
  /\ Streaming ~> (pc = "done")
  /\ [](op.halRet = "HAL_TIMEOUT" => res = "OpNotCompleted")

\* a decode that kept reading zero bytes at the end of the file as long as
\* the model counts, and returned on the time-out
C24_Witness ==
  /\ op.kind = "decode" /\ pc = "done" /\ op.halRet = "HAL_TIMEOUT"
  /\ res = "OpNotCompleted" /\ op.reads = MaxReads /\ op.aborts = 0
  /\ sig.op = "GetDataDec" /\ sig.k = 0 /\ sig.n = 0 /\ sig.cfgIn = 0
  /\ sig.resumedIn

\* C25: pixel buffer size on decode. For every header width and height and
\* every colour space, the size computed by the header-ready handler equals
\* width * height * (1 if grayscale else 2) as a mathematical product: the
\* 32-bit computation does not wrap.
C25_SizeIsProduct ==
  op.hdr.ImageWidth > 0 =>
    /\ ExactSize(op.hdr).top = 0
    /\ op.size32 = ToU32(ExactSize(op.hdr))

\* C26: at most one operation is live at a time. Whenever an entry point
\* initialises the engine and the context for its operation, no other
\* operation is between its engine initialisation and its tear-down: the
\* engine is not initialised and the context and its buffers are cleared.
C26_OneLiveOperation ==
  [][(pc = "idle" /\ op'.inited) => (~hal.inited /\ jpgCtx = ZeroCtx)]_vars

\* the place of a step in the life cycle: 1, 2 Configuring (engine
\* initialisation, engine configuration); 3 Priming (first chunk read, first
\* unit converted); 4 Streaming (the blocking call); 5 Completed or Aborted
\* (its return); 6 engine de-initialisation; 7 closing the storage object
Rank(e) ==
  CASE e = "InitDriver" -> 1
    [] e = "ConfigEncoding" -> 2
    [] e \in {"f_read", "Convert"} -> 3
    [] e \in {"HAL_JPEG_Decode", "HAL_JPEG_Encode"} -> 4
    [] e \in {"HAL_OK", "HAL_TIMEOUT"} -> 5
    [] e = "DeInitDriver" -> 6
    [] e = "f_close" -> 7

\* C27 as stated: every entry-point invocation passes through Configuring,
\* Priming, Streaming and Completed or Aborted, then de-initialises the engine.
C27_EveryInvocationRunsAllStates ==
  (pc = "done" /\ op.kind # "none") =>
    \A r \in {1, 3, 4, 5, 6} :
      \E i \in 1..Len(op.trace) : Rank(op.trace[i]) = r

\* C27, amended: the states are visited in the order Configuring, Priming,
\* Streaming, Completed or Aborted, none twice; an invocation that fails
\* before its blocking call returns from the state it is in without entering
\* the later ones. The blocking call is started at most once, after the
\* priming step, which in encode follows the configuration of the engine;
\* a terminal state is reached from Streaming only and is followed by the
\* de-initialisation of the engine.
C27_LifecycleOrder ==
  LET t == op.trace
      n == Len(op.trace)
  IN
  /\ \A i \in 1..(n - 1) : Rank(t[i]) < Rank(t[i + 1])
  /\ op.started <= 1
  /\ op.started = 1 <=> \E i \in 1..n : Rank(t[i]) = 4
  /\ \A i \in 1..n :
       /\ Rank(t[i]) = 4 =>
            /\ i > 2 /\ Rank(t[i - 1]) = 3 /\ t[1] = "InitDriver"
            /\ t[i] = "HAL_JPEG_Encode" =>
                 (i = 4 /\ t[2] = "ConfigEncoding" /\ t[3] = "Convert")
       /\ Rank(t[i]) = 5 => (i > 1 /\ Rank(t[i - 1]) = 4)
       /\ (Rank(t[i]) = 5 /\ pc = "done") => (i < n /\ t[i + 1] = "DeInitDriver")
  /\ Streaming <=> (n > 0 /\ Rank(t[n]) = 4)
  /\ (pc = "done" /\ res = "Ok") => \E i \in 1..n : t[i] = "HAL_OK"

C27_Witness ==
  /\ pc = "done" /\ op.kind = "encode" /\ res = "OpNotCompleted"
  /\ op.trace = <<"InitDriver", "ConfigEncoding", "Convert", "HAL_JPEG_Encode",
                  "HAL_TIMEOUT", "DeInitDriver", "f_close">>

BothSignals ==
  /\ Streaming /\ Signalling /\ ~hal.pausedIn /\ ~hal.pausedOut
  /\ pc = "decoding" => (hal.hdr /\ hal.outLeft > 0)

\* the need-input signals and the have-output signals the engine may raise
SignalsIn ==
  {in \in [k : 0..hal.inLen, seekOk : BOOLEAN, readOk : BOOLEAN] :
     hal.inLen - in.k <= MaxRewind}

SignalsOut ==
  IF pc = "decoding"
  THEN {[size |-> Min(hal.outLen, hal.outLeft), wrOk |-> TRUE, bw |-> 0]}
  ELSE [size : OutSizes, wrOk : BOOLEAN, bw : OutSizes \cup {0}]

\* need-input then have-output gives what have-output then need-input gives
Commute ==
  LET s == [ctx |-> jpgCtx, hal |-> hal, fil |-> fil]
  IN  \A in \in SignalsIn, out \in SignalsOut :
        HaveOutput(NeedInput(s, in), out) = NeedInput(HaveOutput(s, out), in)

\* C29 as stated: the two handlers commute, and the unit accounting and the
\* offset invariant (fileOffset is the position the engine has consumed up
\* to) hold in every state of every interleaving of the two signals.
C29_CommuteAndInvariants ==
  /\ BothSignals => Commute
  /\ Streaming => jpgCtx.mcuIndex = op.sumUnits
  /\ pc = "decoding" => jpgCtx.fileOffset = op.consumed

\* C29, amended: within one operation the need-input and the have-output
\* handler run in either order from the same state give the same context,
\* storage object and engine buffer configuration, and under every
\* interleaving of the two signals the unit index is the sum of the units
\* converted and, while the engine has not been aborted, fileOffset is the
\* storage read position: the consumed position plus the size of the chunk
\* last handed over.
C29_HandlersCommute ==
  /\ BothSignals => Commute
  /\ Streaming => jpgCtx.mcuIndex = op.sumUnits
  /\ (pc = "decoding" /\ ~hal.aborted) =>
       (jpgCtx.fileOffset = op.consumed + jpgCtx.jpgDataSize
          /\ jpgCtx.fileOffset = fil.fptr)

\* a have-output signal handled between two need-input signals of a decode
C29_Witness ==
  /\ pc = "decoding" /\ BothSignals /\ Commute
  /\ sig.op = "DataReadyDec" /\ op.reads >= 2 /\ op.convs >= 1
  /\ jpgCtx.mcuIndex < jpgCtx.mcuTotal /\ hal.inLen > 0

\* C30: once a handler invocation has aborted the engine, the same
\* invocation performs no further storage I/O and makes no further engine
\* control call; in particular the decode need-input handler, after a failed
\* seek, does not read the next chunk, hand it to the engine or resume the
\* input stage.
C30_NothingAfterAbort ==
  /\ (sig.op = "GetDataDec" /\ ~sig.seekOk) =>
       (sig.readAt = -1 /\ sig.cfgIn = -1 /\ ~sig.resumedIn /\ sig.aborts = 1)
  /\ (sig.op = "DataReadyEnc" /\ ~sig.readOk) =>
       (sig.cfgOut = -1 /\ ~sig.resumedOut /\ sig.aborts = 1)
  /\ (sig.op = "GetDataDec" /\ sig.seekOk /\ ~sig.readOk) =>
       (sig.cfgIn = -1 /\ ~sig.resumedIn /\ sig.aborts = 1)
  /\ op.afterAbort = 0

\* C31: within one operation HAL_JPEG_Abort is called at most once, whatever
\* combination of seek, read, write, allocation and engine failures occurs.
C31_AbortAtMostOnce ==
  op.aborts <= 1 /\ sig.aborts <= 1

\* C32: if encode returns Ok, the storage object holds every byte of every
\* output block the engine produced, in signal order: a write reported as
\* successful but short is not treated as success.
C32_StorageHoldsAllBlocks ==
  /\ (op.kind = "encode" /\ res = "Ok") => fil.fsize = op.produced
  /\ (sig.op = "DataReadyEnc" /\ sig.readOk /\ sig.wrote < sig.n) =>
       (~sig.resumedOut /\ sig.aborts = 1)

\* C33: the decode have-output handler never invokes the conversion routine
\* while pYCbCrToRGBFn is unset or rgbDataPtr is null, whether header-ready
\* has not fired, the allocation failed or the selector rejected the header.
C33_ConverterAndBufferSet ==
  (pc \in {"decoding", "fault"} /\ sig.op = "DataReadyDec" /\ sig.conv # -1) =>
    (jpgCtx.pYCbCrToRGBFn # "NULL" /\ jpgCtx.rgbDataPtr # "NULL")

\* C34: while an operation streams, mcuIndex never decreases; and once a
\* need-input signal of an encode has been answered with the zero-length
\* buffer, every later need-input signal of that operation is answered with
\* the zero-length buffer, without a conversion.
C34_EndOfInputSticky ==
  [][/\ (Streaming /\ pc' = pc) => jpgCtx'.mcuIndex >= jpgCtx.mcuIndex
     /\ (pc = "encoding" /\ pc' = pc /\ op.eois >= 1 /\ sig'.op = "GetDataEnc") =>
          (sig'.cfgIn = 0 /\ sig'.conv = -1 /\ ~MoreUnits(jpgCtx'))]_vars

\* two need-input signals in a row were answered with the zero-length buffer
\* after units had been converted, and the encode went on to return Ok
C34_Witness ==
  /\ op.kind = "encode" /\ op.eois = 2 /\ op.sumUnits >= 1
  /\ op.endIndex >= op.endTotal /\ op.endTotal >= 1
  /\ pc = "done" /\ res = "Ok"

\* how often one of the routines of names is called in calls
CallsOf(calls, names) == Cardinality({i \in DOMAIN calls : calls[i] \in names})

\* C35: a decode operation never writes to storage and an encode operation
\* never reads from or seeks storage; one need-input or have-output handler
\* invocation makes at most one storage read or write and at most one
\* conversion call.
C35_OneDirectionOneUnit ==
  [][/\ pc' = "decoding" =>
          /\ CallsOf(sig'.calls, {"f_write"}) = 0
          /\ pc = "decoding" => fil'.fsize = fil.fsize
     /\ pc' = "encoding" =>
          /\ CallsOf(sig'.calls, {"f_read", "f_lseek"}) = 0
          /\ fil'.fptr = fil'.fsize
     /\ CallsOf(sig'.calls, {"f_read", "f_write"}) <= 1
     /\ CallsOf(sig'.calls, {"pYCbCrToRGBFn", "pRGBToYCbCrFn"}) <= 1]_vars

\* a decode need-input invocation that sought back and read one chunk
C35_Witness ==
  /\ pc = "decoding" /\ sig.op = "GetDataDec"
  /\ sig.calls = <<"f_lseek", "f_read">> /\ sig.seekOk /\ sig.readOk
  /\ op.convs >= 1

====
